---- MODULE Spec2Model ----
(***************************************************************************)
(* Recipe API: per-user scoping of recipes, tags and ingredients, the      *)
(* get-or-create reconciliation of nested tag/ingredient lists, and the    *)
(* id-list / assigned-only query filters.                                  *)
(*                                                                         *)
(* The persistent store is the five tables below.  Every action is one     *)
(* HTTP request handled from start to finish (authenticated principal,     *)
(* query string and body are its inputs) and records the request and the   *)
(* response it produced.                                                   *)
(***************************************************************************)
EXTENDS FiniteSets, Integers, Sequences, TLC

(* ------------------------------ bounds --------------------------------- *)
MaxRecipes == 2
MaxTags == 2
MaxIngredients == 1
MaxUsers == 2
MaxFailedChecks == 10

Users == {"u1", "u2"}
Names == {"a", "b"}
Titles == {"t1", "t2"}

(* Optional values: None is Python's None / an absent key, Some(x) a value *)
None == <<>>
Some(x) == <<x>>
Has(o) == o # <<>>
Val(o) == o[1]

(* --------------------------- HTTP statuses ----------------------------- *)
HTTP_200_OK == 200
HTTP_201_CREATED == 201
HTTP_204_NO_CONTENT == 204
HTTP_400_BAD_REQUEST == 400
HTTP_401_UNAUTHORIZED == 401
HTTP_404_NOT_FOUND == 404
HTTP_500_SERVER_ERROR == 500

VARIABLES
    recipes,             \* Recipe rows: id -> [user, title, image]
    tags,                \* Tag rows: id -> [user, name]
    ingredients,         \* Ingredient rows: id -> [user, name]
    recipe_tags,         \* Recipe.tags through table: set of <<recipe id, tag id>>
    recipe_ingredients,  \* Recipe.ingredients through table
    sequences,           \* next primary key of each table
    users,               \* User rows: id -> [email, password, name]
    tokens,              \* users holding an auth token row
    workers,             \* server workers handling requests side by side
    command,             \* the wait_for_db management command
    default_database,    \* whether the default database accepts connections
    request,             \* the request handled last
    response             \* the response it got

vars == <<recipes, tags, ingredients, recipe_tags, recipe_ingredients,
          sequences, users, tokens, workers, command, default_database,
          request, response>>

store == <<recipes, tags, ingredients, recipe_tags, recipe_ingredients>>

(* The store as one value, for the operators that thread it through a      *)
(* handler.                                                                *)
Db == [recipes |-> recipes, tags |-> tags, ingredients |-> ingredients,
       recipe_tags |-> recipe_tags, recipe_ingredients |-> recipe_ingredients,
       sequences |-> sequences]

(* ------------------------- query-string parsing ------------------------ *)
Digits == {"0", "1", "2", "3", "4", "5", "6", "7", "8", "9"}

DigitValue(c) ==
    CASE c = "0" -> 0 [] c = "1" -> 1 [] c = "2" -> 2 [] c = "3" -> 3
      [] c = "4" -> 4 [] c = "5" -> 5 [] c = "6" -> 6 [] c = "7" -> 7
      [] c = "8" -> 8 [] c = "9" -> 9

(* str.split(','): the tokens between commas; always at least one token,   *)
(* and an empty token for a leading, trailing or doubled comma.            *)
RECURSIVE SplitFrom(_, _, _)
SplitFrom(s, i, cur) ==
    IF i > Len(s) THEN <<cur>>
    ELSE IF s[i] = "," THEN <<cur>> \o SplitFrom(s, i + 1, <<>>)
    ELSE SplitFrom(s, i + 1, Append(cur, s[i]))

Split(s) == SplitFrom(s, 1, <<>>)

(* int(str): the decimal value of a non-empty all-digit token; None stands *)
(* for the ValueError int() raises on anything else.                       *)
RECURSIVE DecimalValue(_, _)
DecimalValue(tok, n) ==
    IF n = 0 THEN 0 ELSE 10 * DecimalValue(tok, n - 1) + DigitValue(tok[n])

int(tok) ==
    IF tok # <<>> /\ \A i \in 1..Len(tok) : tok[i] \in Digits
    THEN Some(DecimalValue(tok, Len(tok)))
    ELSE None

(* RecipeViewSet._params_to_ints: the list of ints, or None when int()     *)
(* raised on one of the tokens.                                            *)
_params_to_ints(params) ==
    LET toks == Split(params)
        vals == [i \in 1..Len(toks) |-> int(toks[i])]
    IN  IF \E i \in 1..Len(toks) : ~Has(vals[i])
        THEN None
        ELSE Some([i \in 1..Len(toks) |-> Val(vals[i])])

(* ------------------------------ the ORM -------------------------------- *)
Range(f) == {f[i] : i \in DOMAIN f}

Max(S) == CHOOSE m \in S : \A x \in S : x <= m

Repeat(x, n) == [i \in 1..n |-> x]

(* autocommit: every statement is committed as it is executed              *)
AtomicRequests_off == FALSE

(* Whether each request runs in one database transaction that is rolled    *)
(* back when it ends in an error.  The handlers open no transaction        *)
(* themselves; the per-request transaction is the persistence layer's.     *)
AtomicRequests == TRUE

(* create(...) in place of get_or_create(...)                              *)
get_or_create_always_create(table, nextId, user, name) ==
    [exc |-> None, id |-> nextId, created |-> TRUE,
     table |-> table @@ (nextId :> [user |-> user, name |-> name]),
     next |-> nextId + 1]

(* get_or_create(name=...) without the user                                *)
get_or_create_any_user(table, nextId, user, name) ==
    LET found == {i \in DOMAIN table : table[i].name = name}
    IN  IF found = {}
        THEN [exc |-> None, id |-> nextId, created |-> TRUE,
              table |-> table @@ (nextId :> [user |-> user, name |-> name]),
              next |-> nextId + 1]
        ELSE IF Cardinality(found) = 1
        THEN [exc |-> None, id |-> CHOOSE i \in found : TRUE,
              created |-> FALSE, table |-> table, next |-> nextId]
        ELSE [exc |-> Some("MultipleObjectsReturned"), id |-> 0,
              created |-> FALSE, table |-> table, next |-> nextId]

(* Manager.get_or_create(user=..., name=...): the single matching row, a   *)
(* new row when there is none, MultipleObjectsReturned when there are      *)
(* several.                                                                *)
get_or_create(table, nextId, user, name) ==
    LET found == {i \in DOMAIN table :
                      table[i].user = user /\ table[i].name = name}
    IN  IF found = {}
        THEN [exc |-> None, id |-> nextId, created |-> TRUE,
              table |-> table @@ (nextId :> [user |-> user, name |-> name]),
              next |-> nextId + 1]
        ELSE IF Cardinality(found) = 1
        THEN [exc |-> None, id |-> CHOOSE i \in found : TRUE,
              created |-> FALSE, table |-> table, next |-> nextId]
        ELSE [exc |-> Some("MultipleObjectsReturned"), id |-> 0,
              created |-> FALSE, table |-> table, next |-> nextId]

(* _get_or_create_tags refusing a list that names a tag twice              *)
RECURSIVE _get_or_create_tags_no_duplicates(_, _, _, _)
_get_or_create_tags_no_duplicates(db, items, recipe, auth_user) ==
    IF items = <<>> THEN [db |-> db, exc |-> None]
    ELSE IF \E i \in 2..Len(items) : items[i] = Head(items)
    THEN [db |-> db, exc |-> Some("IntegrityError")]
    ELSE LET r == get_or_create(db.tags, db.sequences.tag, auth_user, Head(items))
         IN  IF Has(r.exc) THEN [db |-> db, exc |-> r.exc]
             ELSE _get_or_create_tags_no_duplicates(
                      [db EXCEPT !.tags = r.table,
                                 !.sequences.tag = r.next,
                                 !.recipe_tags = @ \cup {<<recipe, r.id>>}],
                      Tail(items), recipe, auth_user)

(* RecipeSerializer._get_or_create_tags: for each item in order,           *)
(* get_or_create the requester's tag of that name and add it to the        *)
(* recipe.  db is the store as the executed statements left it.            *)
RECURSIVE _get_or_create_tags(_, _, _, _)
_get_or_create_tags(db, items, recipe, auth_user) ==
    IF items = <<>> THEN [db |-> db, exc |-> None]
    ELSE LET r == get_or_create(db.tags, db.sequences.tag, auth_user, Head(items))
         IN  IF Has(r.exc) THEN [db |-> db, exc |-> r.exc]
             ELSE _get_or_create_tags(
                      [db EXCEPT !.tags = r.table,
                                 !.sequences.tag = r.next,
                                 !.recipe_tags = @ \cup {<<recipe, r.id>>}],
                      Tail(items), recipe, auth_user)

(* RecipeSerializer._get_or_create_ingredients                             *)
RECURSIVE _get_or_create_ingredients(_, _, _, _)
_get_or_create_ingredients(db, items, recipe, auth_user) ==
    IF items = <<>> THEN [db |-> db, exc |-> None]
    ELSE LET r == get_or_create(db.ingredients, db.sequences.ingredient,
                                auth_user, Head(items))
         IN  IF Has(r.exc) THEN [db |-> db, exc |-> r.exc]
             ELSE _get_or_create_ingredients(
                      [db EXCEPT !.ingredients = r.table,
                                 !.sequences.ingredient = r.next,
                                 !.recipe_ingredients = @ \cup {<<recipe, r.id>>}],
                      Tail(items), recipe, auth_user)

(* every key of the payload taken as a field                               *)
to_internal_value_all_keys(data, fields) == data

(* Serializer.to_internal_value: the payload's values for the fields the   *)
(* serializer declares in Meta.fields; any other key is dropped.           *)
to_internal_value(data, fields) == [f \in fields |-> data[f]]

(* The writable fields of RecipeSerializer / RecipeDetailSerializer and of *)
(* TagSerializer / IngredientSerializer that the model carries.            *)
RecipeSerializer_fields == {"title", "tags", "ingredients"}

TagSerializer_fields == {"name"}

(* What a handler hands back: the store as it left it, the status and the  *)
(* body (a list of primary keys).                                          *)
Result(db, status, data) == [db |-> db, status |-> status, data |-> data]

(* RecipeSerializer.create, reached through perform_create with            *)
(* user=request.user: insert the recipe row, then reconcile tags, then     *)
(* ingredients.                                                            *)
RecipeSerializer_create(db, auth_user, data) ==
    LET tag_items == IF Has(data.tags) THEN Val(data.tags) ELSE <<>>
        ingredient_items ==
            IF Has(data.ingredients) THEN Val(data.ingredients) ELSE <<>>
        id == db.sequences.recipe
        db1 == [db EXCEPT
                  !.recipes = @ @@ (id :> [user |-> auth_user,
                                           title |-> Val(data.title),
                                           image |-> None]),
                  !.sequences.recipe = id + 1]
        r1 == _get_or_create_tags(db1, tag_items, id, auth_user)
        r2 == _get_or_create_ingredients(r1.db, ingredient_items, id, auth_user)
    IN  IF Has(r1.exc) THEN Result(r1.db, HTTP_500_SERVER_ERROR, <<>>)
        ELSE IF Has(r2.exc) THEN Result(r2.db, HTTP_500_SERVER_ERROR, <<>>)
        ELSE Result(r2.db, HTTP_201_CREATED, <<id>>)

(* the tags field reconciled without clearing first                        *)
update_tags_no_clear(db, tag_items, instance, auth_user) ==
    IF Has(tag_items)
    THEN _get_or_create_tags(db, Val(tag_items), instance, auth_user)
    ELSE [db |-> db, exc |-> None]

(* an absent tags field taken for an empty list, as create does            *)
update_tags_default_empty(db, tag_items, instance, auth_user) ==
    _get_or_create_tags(
        [db EXCEPT !.recipe_tags = {l \in @ : l[1] # instance}],
        IF Has(tag_items) THEN Val(tag_items) ELSE <<>>, instance, auth_user)

(* RecipeSerializer.update, the tags field: when the field was provided   *)
(* (an empty list included), clear the recipe's tags and reconcile the     *)
(* list; when it was not, touch nothing.                                   *)
update_tags(db, tag_items, instance, auth_user) ==
    IF Has(tag_items)
    THEN _get_or_create_tags(
             [db EXCEPT !.recipe_tags = {l \in @ : l[1] # instance}],
             Val(tag_items), instance, auth_user)
    ELSE [db |-> db, exc |-> None]

(* RecipeSerializer.update, the ingredients field                          *)
update_ingredients(db, ingredient_items, instance, auth_user) ==
    IF Has(ingredient_items)
    THEN _get_or_create_ingredients(
             [db EXCEPT !.recipe_ingredients = {l \in @ : l[1] # instance}],
             Val(ingredient_items), instance, auth_user)
    ELSE [db |-> db, exc |-> None]

(* RecipeSerializer.update: tags, then ingredients, then every remaining   *)
(* attribute of the validated data is set on the row, which is saved.      *)
RecipeSerializer_update(db, auth_user, instance, data) ==
    LET r1 == update_tags(db, data.tags, instance, auth_user)
        r2 == update_ingredients(r1.db, data.ingredients, instance, auth_user)
        db3 == IF Has(data.title)
               THEN [r2.db EXCEPT !.recipes[instance].title = Val(data.title)]
               ELSE r2.db
        db4 == IF "user" \in DOMAIN data /\ Has(data.user)
               THEN [db3 EXCEPT !.recipes[instance].user = Val(data.user)]
               ELSE db3
    IN  IF Has(r1.exc) THEN Result(r1.db, HTTP_500_SERVER_ERROR, <<>>)
        ELSE IF Has(r2.exc) THEN Result(r2.db, HTTP_500_SERVER_ERROR, <<>>)
        ELSE Result(db4, HTTP_200_OK, <<instance>>)

(* ------------------------------ querysets ------------------------------ *)
(* A queryset is the number of result rows per primary key: a join over a  *)
(* through table yields one row per matching association.                  *)
Truthy(param) == Has(param) /\ Val(param) # <<>>

filter_in(qs, through, ids) ==
    [pk \in DOMAIN qs |->
        qs[pk] * Cardinality({l \in through : l[1] = pk /\ l[2] \in ids})]

(* filter(user=...) left out                                               *)
filter_user_missing(qs, table, user) == qs

filter_user(qs, table, user) ==
    [pk \in DOMAIN qs |-> IF table[pk].user = user THEN qs[pk] ELSE 0]

(* distinct() left out                                                     *)
distinct_missing(qs) == qs

distinct(qs) == [pk \in DOMAIN qs |-> IF qs[pk] > 0 THEN 1 ELSE 0]

(* order_by('-id') left out: the rows in primary-key order                 *)
RECURSIVE order_by_missing(_, _)
order_by_missing(qs, pks) ==
    IF pks = {} THEN <<>>
    ELSE LET m == CHOOSE x \in pks : \A y \in pks : x <= y
         IN  Repeat(m, qs[m]) \o order_by_missing(qs, pks \ {m})

(* order_by('-id'): the rows by descending primary key                     *)
RECURSIVE OrderByIdDesc(_, _)
OrderByIdDesc(qs, pks) ==
    IF pks = {} THEN <<>>
    ELSE LET m == Max(pks)
         IN  Repeat(m, qs[m]) \o OrderByIdDesc(qs, pks \ {m})

(* get_queryset with the ingredients filter applied to all recipes instead *)
(* of to the recipes the tags filter kept                                  *)
RecipeViewSet_get_queryset_filters_not_chained(db, user, query) ==
    LET all == [pk \in DOMAIN db.recipes |-> 1]
        tag_ids == IF Truthy(query.tags)
                   THEN _params_to_ints(Val(query.tags)) ELSE Some(<<>>)
        ingredient_ids == IF Truthy(query.ingredients)
                          THEN _params_to_ints(Val(query.ingredients))
                          ELSE Some(<<>>)
        qs1 == IF Truthy(query.tags)
               THEN filter_in(all, db.recipe_tags, Range(Val(tag_ids)))
               ELSE all
        qs2 == IF Truthy(query.ingredients)
               THEN filter_in(all, db.recipe_ingredients,
                              Range(Val(ingredient_ids)))
               ELSE qs1
        user_recipes == distinct(filter_user(qs2, db.recipes, user))
    IN  IF ~Has(tag_ids) \/ ~Has(ingredient_ids) THEN None
        ELSE Some(OrderByIdDesc(user_recipes, DOMAIN user_recipes))

(* RecipeViewSet.get_queryset: None stands for the ValueError raised by    *)
(* _params_to_ints; otherwise the requester's recipes, filtered, distinct, *)
(* newest first.                                                           *)
RecipeViewSet_get_queryset(db, user, query) ==
    LET all == [pk \in DOMAIN db.recipes |-> 1]
        tag_ids == IF Truthy(query.tags)
                   THEN _params_to_ints(Val(query.tags)) ELSE Some(<<>>)
        ingredient_ids == IF Truthy(query.ingredients)
                          THEN _params_to_ints(Val(query.ingredients))
                          ELSE Some(<<>>)
        qs1 == IF Truthy(query.tags)
               THEN filter_in(all, db.recipe_tags, Range(Val(tag_ids)))
               ELSE all
        qs2 == IF Truthy(query.ingredients)
               THEN filter_in(qs1, db.recipe_ingredients,
                              Range(Val(ingredient_ids)))
               ELSE qs1
        user_recipes == distinct(filter_user(qs2, db.recipes, user))
    IN  IF ~Has(tag_ids) \/ ~Has(ingredient_ids) THEN None
        ELSE Some(OrderByIdDesc(user_recipes, DOMAIN user_recipes))

NameRank(name) == CASE name = "a" -> 1 [] name = "b" -> 2

(* order_by('name'): every arrangement of the result rows with the names   *)
(* ascending; rows of equal name come in an order the database chooses.    *)
OrderByName(qs, table) ==
    LET pks == {pk \in DOMAIN qs : qs[pk] > 0}
        RECURSIVE Sum(_)
        Sum(S) == IF S = {} THEN 0
                  ELSE LET x == CHOOSE y \in S : TRUE IN qs[x] + Sum(S \ {x})
        n == Sum(pks)
    IN  {s \in [1..n -> pks] :
            /\ \A pk \in pks : Cardinality({i \in 1..n : s[i] = pk}) = qs[pk]
            /\ \A i \in 1..n, j \in 1..n :
                   i < j => NameRank(table[s[i]].name) <= NameRank(table[s[j]].name)}

(* the assigned_only flag ignored                                          *)
filter_recipe_isnull_false_missing(qs, through) == qs

(* filter(recipe__isnull=False): the join with the through table, one row  *)
(* per recipe the attribute is assigned to.                                *)
filter_recipe_isnull_false(qs, through) ==
    [pk \in DOMAIN qs |-> qs[pk] * Cardinality({l \in through : l[2] = pk})]

(* BaseRecipeAttributesViewSet.get_queryset, for the table and through     *)
(* table of TagViewSet or IngredientViewSet: None stands for the           *)
(* ValueError raised by int(); otherwise the requester's rows, joined to   *)
(* their recipes when assigned_only, distinct.  The rows are ordered by    *)
(* OrderByName when they are listed.                                       *)
BaseRecipeAttributesViewSet_get_queryset(table, through, user, query) ==
    LET n == IF Has(query.assigned_only) THEN int(Val(query.assigned_only))
             ELSE Some(0)
        assigned_only == Val(n) # 0
        all == [pk \in DOMAIN table |-> 1]
        qs == IF assigned_only THEN filter_recipe_isnull_false(all, through)
              ELSE all
    IN  IF ~Has(n) THEN None
        ELSE Some(distinct(filter_user(qs, table, user)))

(* GenericAPIView.get_object: get(pk=pk) on a queryset holding n rows of   *)
(* that primary key is the row, Http404 or MultipleObjectsReturned.        *)
get_object(n) ==
    IF n = 0 THEN HTTP_404_NOT_FOUND
    ELSE IF n = 1 THEN HTTP_200_OK
    ELSE HTTP_500_SERVER_ERROR

RowsOf(rows, pk) == Cardinality({i \in 1..Len(rows) : rows[i] = pk})

(* ------------------------- requests and responses ---------------------- *)
Query(tags_param, ingredients_param, assigned_only) ==
    [tags |-> tags_param, ingredients |-> ingredients_param,
     assigned_only |-> assigned_only]

NoQuery == Query(None, None, None)

Data(title, tag_items, ingredient_items, name, image) ==
    [title |-> title, tags |-> tag_items, ingredients |-> ingredient_items,
     name |-> name, image |-> image]

NoData == Data(None, None, None, None, None)

Req(view, action, user, pk, query, data) ==
    [view |-> view, action |-> action, user |-> user, pk |-> pk,
     query |-> query, data |-> data]

(* --------------------------- authentication ---------------------------- *)
(* The principal TokenAuthentication resolved the request to: a user, or   *)
(* AnonymousUser when the request carries no credentials.                  *)
AnonymousUser == "anonymous"

(* permission_classes = [AllowAny]                                         *)
IsAuthenticated_AllowAny(user) == TRUE

(* permission_classes = [IsAuthenticated]                                  *)
IsAuthenticated(user) == user # AnonymousUser

(* APIView.initial: the permission check made before the handler runs; a   *)
(* request without credentials is answered 401 and the handler is not      *)
(* called.                                                                 *)
check_permissions(db, user, out) ==
    IF IsAuthenticated(user) THEN out
    ELSE Result(db, HTTP_401_UNAUTHORIZED, <<>>)

(* ------------------------------ RecipeViewSet -------------------------- *)
RecipeViewSet_list(db, user, query) ==
    LET qs == RecipeViewSet_get_queryset(db, user, query)
    IN  IF ~Has(qs) THEN Result(db, HTTP_500_SERVER_ERROR, <<>>)
        ELSE Result(db, HTTP_200_OK, Val(qs))

(* CreateModelMixin.create: validate (title is a required field), then     *)
(* perform_create.                                                         *)
RecipeViewSet_create(db, user, data) ==
    IF ~Has(data.title) THEN Result(db, HTTP_400_BAD_REQUEST, <<>>)
    ELSE RecipeSerializer_create(db, user,
                                 to_internal_value(data, RecipeSerializer_fields))

(* The lookup made on the requester's recipes with the query string left   *)
(* out of the queryset                                                     *)
RecipeViewSet_get_object_unfiltered(db, user, pk, query) ==
    get_object(RowsOf(Val(RecipeViewSet_get_queryset(db, user, NoQuery)), pk))

(* The lookup every detail route starts with: the status get_object ends   *)
(* in on RecipeViewSet.get_queryset.                                       *)
RecipeViewSet_get_object(db, user, pk, query) ==
    LET qs == RecipeViewSet_get_queryset(db, user, query)
    IN  IF ~Has(qs) THEN HTTP_500_SERVER_ERROR
        ELSE get_object(RowsOf(Val(qs), pk))

RecipeViewSet_retrieve(db, user, pk, query) ==
    LET found == RecipeViewSet_get_object(db, user, pk, query)
    IN  IF found # HTTP_200_OK THEN Result(db, found, <<>>)
        ELSE Result(db, HTTP_200_OK, <<pk>>)

(* UpdateModelMixin.update / partial_update: get_object, validate (PUT     *)
(* requires title), RecipeSerializer.update.                               *)
RecipeViewSet_update(db, user, pk, query, data, partial) ==
    LET found == RecipeViewSet_get_object(db, user, pk, query)
    IN  IF found # HTTP_200_OK THEN Result(db, found, <<>>)
        ELSE IF ~partial /\ ~Has(data.title)
        THEN Result(db, HTTP_400_BAD_REQUEST, <<>>)
        ELSE RecipeSerializer_update(db, user, pk,
                                     to_internal_value(data, RecipeSerializer_fields))

(* destroy taking the recipe's tags and ingredients with it                *)
RecipeViewSet_destroy_with_attributes(db, user, pk, query) ==
    LET found == RecipeViewSet_get_object(db, user, pk, query)
        gone_tags == {l[2] : l \in {m \in db.recipe_tags : m[1] = pk}}
        gone_ingredients ==
            {l[2] : l \in {m \in db.recipe_ingredients : m[1] = pk}}
    IN  IF found # HTTP_200_OK THEN Result(db, found, <<>>)
        ELSE Result([db EXCEPT
                       !.recipes = [r \in DOMAIN @ \ {pk} |-> @[r]],
                       !.tags = [t \in DOMAIN @ \ gone_tags |-> @[t]],
                       !.ingredients =
                           [t \in DOMAIN @ \ gone_ingredients |-> @[t]],
                       !.recipe_tags = {l \in @ : l[2] \notin gone_tags},
                       !.recipe_ingredients =
                           {l \in @ : l[2] \notin gone_ingredients}],
                    HTTP_204_NO_CONTENT, <<>>)

(* DestroyModelMixin.destroy: get_object, delete the row; its through-table *)
(* rows go with it.                                                        *)
RecipeViewSet_destroy(db, user, pk, query) ==
    LET found == RecipeViewSet_get_object(db, user, pk, query)
    IN  IF found # HTTP_200_OK THEN Result(db, found, <<>>)
        ELSE Result([db EXCEPT
                       !.recipes = [r \in DOMAIN @ \ {pk} |-> @[r]],
                       !.recipe_tags = {l \in @ : l[1] # pk},
                       !.recipe_ingredients = {l \in @ : l[1] # pk}],
                    HTTP_204_NO_CONTENT, <<>>)

(* upload_image saving whatever was sent, without is_valid()               *)
RecipeViewSet_upload_image_no_validation(db, user, pk, query, data) ==
    LET found == RecipeViewSet_get_object(db, user, pk, query)
    IN  IF found # HTTP_200_OK THEN Result(db, found, <<>>)
        ELSE Result([db EXCEPT !.recipes[pk].image = data.image],
                    HTTP_200_OK, <<pk>>)

(* RecipeViewSet.upload_image: get_object, RecipeImageSerializer (image    *)
(* required and must decode as an image), save.                            *)
RecipeViewSet_upload_image(db, user, pk, query, data) ==
    LET found == RecipeViewSet_get_object(db, user, pk, query)
    IN  IF found # HTTP_200_OK THEN Result(db, found, <<>>)
        ELSE IF ~Has(data.image) \/ Val(data.image) # "jpeg"
        THEN Result(db, HTTP_400_BAD_REQUEST, <<>>)
        ELSE Result([db EXCEPT !.recipes[pk].image = data.image],
                    HTTP_200_OK, <<pk>>)

(* ---------------- TagViewSet and IngredientViewSet --------------------- *)
TableOf(db, view) == IF view = "tag" THEN db.tags ELSE db.ingredients

ThroughOf(db, view) ==
    IF view = "tag" THEN db.recipe_tags ELSE db.recipe_ingredients

(* ListModelMixin.list: the possible bodies, one per order the database    *)
(* may give rows of equal name.                                            *)
BaseRecipeAttributesViewSet_list(db, view, user, query) ==
    LET qs == BaseRecipeAttributesViewSet_get_queryset(
                  TableOf(db, view), ThroughOf(db, view), user, query)
    IN  IF ~Has(qs) THEN {Result(db, HTTP_500_SERVER_ERROR, <<>>)}
        ELSE {Result(db, HTTP_200_OK, rows) :
                  rows \in OrderByName(Val(qs), TableOf(db, view))}

BaseRecipeAttributesViewSet_get_object(db, view, user, pk, query) ==
    LET qs == BaseRecipeAttributesViewSet_get_queryset(
                  TableOf(db, view), ThroughOf(db, view), user, query)
    IN  IF ~Has(qs) THEN HTTP_500_SERVER_ERROR
        ELSE get_object(IF pk \in DOMAIN Val(qs) THEN Val(qs)[pk] ELSE 0)

(* UpdateModelMixin.update / partial_update with TagSerializer or          *)
(* IngredientSerializer: name is the only writable field, required on PUT; *)
(* every attribute of the validated data is set on the row.                *)
BaseRecipeAttributesViewSet_update(db, view, user, pk, query, data, partial) ==
    LET found == BaseRecipeAttributesViewSet_get_object(db, view, user, pk, query)
        attrs == to_internal_value(data, TagSerializer_fields)
        name == IF Has(attrs.name) THEN Val(attrs.name)
                ELSE TableOf(db, view)[pk].name
        owner == IF "user" \in DOMAIN attrs /\ Has(attrs.user) THEN Val(attrs.user)
                 ELSE TableOf(db, view)[pk].user
        row == [user |-> owner, name |-> name]
    IN  IF found # HTTP_200_OK THEN Result(db, found, <<>>)
        ELSE IF ~partial /\ ~Has(data.name)
        THEN Result(db, HTTP_400_BAD_REQUEST, <<>>)
        ELSE Result(IF view = "tag"
                    THEN [db EXCEPT !.tags[pk] = row]
                    ELSE [db EXCEPT !.ingredients[pk] = row],
                    HTTP_200_OK, <<pk>>)

(* DestroyModelMixin.destroy: delete the row and its through-table rows.   *)
BaseRecipeAttributesViewSet_destroy(db, view, user, pk, query) ==
    LET found == BaseRecipeAttributesViewSet_get_object(db, view, user, pk, query)
    IN  IF found # HTTP_200_OK THEN Result(db, found, <<>>)
        ELSE Result(IF view = "tag"
                    THEN [db EXCEPT
                            !.tags = [t \in DOMAIN @ \ {pk} |-> @[t]],
                            !.recipe_tags = {l \in @ : l[2] # pk}]
                    ELSE [db EXCEPT
                            !.ingredients = [t \in DOMAIN @ \ {pk} |-> @[t]],
                            !.recipe_ingredients = {l \in @ : l[2] # pk}],
                    HTTP_204_NO_CONTENT, <<>>)

(* ------------------------------ user API ------------------------------- *)
(* str.strip(): leading and trailing whitespace removed                    *)
RECURSIVE lstrip(_)
lstrip(s) == IF s # <<>> /\ Head(s) = " " THEN lstrip(Tail(s)) ELSE s

RECURSIVE rstrip(_)
rstrip(s) ==
    IF s # <<>> /\ s[Len(s)] = " " THEN rstrip(SubSeq(s, 1, Len(s) - 1)) ELSE s

strip(s) == rstrip(lstrip(s))

(* serializers.CharField: the value, stripped when trim_whitespace; None   *)
(* stands for the ValidationError raised on a blank value or on one        *)
(* shorter than min_length.                                                *)
CharField(value, trim_whitespace, min_length) ==
    LET v == IF trim_whitespace THEN strip(value) ELSE value
    IN  IF v = <<>> \/ Len(v) < min_length THEN None ELSE Some(v)

(* serializers.EmailField: a stripped, non-blank value with one @ that has *)
(* something on either side.                                               *)
EmailField(value) ==
    LET v == strip(value)
        at == {i \in 1..Len(v) : v[i] = "@"}
    IN  IF Cardinality(at) = 1 /\ 1 \notin at /\ Len(v) \notin at
        THEN Some(v) ELSE None

MinLength == 5

(* the password field without min_length                                   *)
UserSerializer_password_no_min_length(value) == CharField(value, TRUE, 0)

(* UserSerializer.Meta.extra_kwargs: password, min_length 5                *)
UserSerializer_password(value) == CharField(value, TRUE, MinLength)

(* The validator a ModelSerializer gives a unique model field: no row      *)
(* other than the instance being updated holds the value.                  *)
UniqueValidator(table, instance, email) ==
    \A u \in DOMAIN table : u # instance => table[u].email # email

UserData(email, password, name) ==
    [email |-> email, password |-> password, name |-> name]

(* UserSerializer.is_valid for the fields email, password, name: the       *)
(* validated data, or None for a ValidationError.  Every field is required *)
(* unless the update is partial; instance is the row being updated, "none" *)
(* on create.                                                              *)
UserSerializer_is_valid(table, instance, data, partial) ==
    LET email == IF Has(data.email) THEN EmailField(Val(data.email)) ELSE None
        password == IF Has(data.password)
                    THEN UserSerializer_password(Val(data.password)) ELSE None
        name == data.name
    IN  IF \/ ~partial /\ (~Has(data.email) \/ ~Has(data.password) \/ ~Has(data.name))
           \/ Has(data.email) /\ ~Has(email)
           \/ Has(data.email) /\ Has(email)
                  /\ ~UniqueValidator(table, instance, Val(email))
           \/ Has(data.password) /\ ~Has(password)
        THEN None
        ELSE Some(UserData(email, password, name))

UserId(n) == CASE n = 1 -> "u1" [] n = 2 -> "u2" [] n = 3 -> "u3" [] OTHER -> "u4"

(* UserSerializer.create: create_user with the validated data inserts the  *)
(* row under the next primary key.                                         *)
UserSerializer_create(table, validated_data) ==
    LET id == UserId(Cardinality(DOMAIN table) + 1)
    IN  [id |-> id,
         table |-> table @@ (id :> [email |-> Val(validated_data.email),
                                    password |-> Val(validated_data.password),
                                    name |-> Val(validated_data.name)])]

(* UserSerializer.update: the password is popped, the other fields given   *)
(* are set, and a password that was given is set with set_password.        *)
UserSerializer_update(table, instance, validated_data) ==
    LET password == validated_data.password
        t1 == IF Has(validated_data.email)
              THEN [table EXCEPT ![instance].email = Val(validated_data.email)]
              ELSE table
        t2 == IF Has(validated_data.name)
              THEN [t1 EXCEPT ![instance].name = Val(validated_data.name)]
              ELSE t1
    IN  IF Has(password) /\ Val(password) # <<>>
        THEN [t2 EXCEPT ![instance].password = Val(password)]
        ELSE t2

(* authenticate(username=email, password=password): the user whose email   *)
(* and password these are, or None.                                        *)
authenticate(table, email, password) ==
    LET found == {u \in DOMAIN table :
                     table[u].email = email /\ table[u].password = password}
    IN  IF found = {} THEN None ELSE Some(CHOOSE u \in found : TRUE)

(* authenticate() ignoring the password                                    *)
AuthTokenSerializer_validate_any_password(table, data) ==
    IF ~Has(data.email) \/ ~Has(data.password) THEN None
    ELSE LET email == EmailField(Val(data.email))
             found == {u \in DOMAIN table :
                          Has(email) /\ table[u].email = Val(email)}
         IN  IF found = {} THEN None ELSE Some(CHOOSE u \in found : TRUE)

(* AuthTokenSerializer: the fields email (EmailField) and password         *)
(* (CharField, trim_whitespace=False), then validate(): a falsy password   *)
(* or a failed authenticate() is a ValidationError (None), otherwise the   *)
(* authenticated user.                                                     *)
AuthTokenSerializer_validate(table, data) ==
    IF ~Has(data.email) \/ ~Has(data.password) THEN None
    ELSE LET email == EmailField(Val(data.email))
             password == CharField(Val(data.password), FALSE, 0)
         IN  IF ~Has(email) \/ ~Has(password) THEN None
             ELSE IF Val(password) = <<>> THEN None
             ELSE authenticate(table, Val(email), Val(password))

(* What a user-API view hands back: user table, token table, status, body. *)
UserResult(table, toks, status, data) ==
    [users |-> table, tokens |-> toks, status |-> status, data |-> data]

(* POST /user/create: validate, create, 201.                               *)
CreateUserView(table, toks, data) ==
    LET validated_data == UserSerializer_is_valid(table, "none", data, FALSE)
        created == UserSerializer_create(table, Val(validated_data))
    IN  IF ~Has(validated_data)
        THEN UserResult(table, toks, HTTP_400_BAD_REQUEST, <<>>)
        ELSE UserResult(created.table, toks, HTTP_201_CREATED, <<created.id>>)

(* POST /user/token: validate the credentials, get or create the user's    *)
(* token, 200 with the token.                                              *)
CreateTokenView(table, toks, data) ==
    LET user == AuthTokenSerializer_validate(table, data)
    IN  IF ~Has(user)
        THEN UserResult(table, toks, HTTP_400_BAD_REQUEST, <<>>)
        ELSE UserResult(table, toks \cup {Val(user)}, HTTP_200_OK, <<Val(user)>>)

(* GET /user/me: the authenticated user's own row.                         *)
ManageUserView_retrieve(table, toks, user) ==
    IF ~IsAuthenticated(user)
    THEN UserResult(table, toks, HTTP_401_UNAUTHORIZED, <<>>)
    ELSE UserResult(table, toks, HTTP_200_OK, <<user>>)

(* PUT / PATCH /user/me: validate, update the authenticated user's row.    *)
ManageUserView_update(table, toks, user, data, partial) ==
    LET validated_data == UserSerializer_is_valid(table, user, data, partial)
    IN  IF ~IsAuthenticated(user)
        THEN UserResult(table, toks, HTTP_401_UNAUTHORIZED, <<>>)
        ELSE IF ~Has(validated_data)
        THEN UserResult(table, toks, HTTP_400_BAD_REQUEST, <<>>)
        ELSE UserResult(UserSerializer_update(table, user, Val(validated_data)),
                        toks, HTTP_200_OK, <<user>>)

(* --------------------------- request handling -------------------------- *)
(* The store a request leaves behind: what its statements wrote, or, when  *)
(* the request ended in an error inside a per-request transaction, what    *)
(* was there before.                                                       *)
Transaction(before, out) ==
    IF AtomicRequests /\ out.status >= HTTP_400_BAD_REQUEST THEN before
    ELSE out.db

NoRequest == Req("none", "none", "none", 0, NoQuery, NoData)

NoResponse == [status |-> 0, data |-> <<>>]

Idle == request = NoRequest

(* One request from dispatch to response: requests are handled one at a    *)
(* time, so the previous exchange is over when the next one starts.        *)
(* Requests that would take a primary key beyond the modelled range are    *)
(* not issued.                                                             *)
Handle(req, out) ==
    LET final == Transaction(Db, out)
    IN  /\ Idle
        /\ out.db.sequences.recipe <= MaxRecipes + 1
        /\ out.db.sequences.tag <= MaxTags + 1
        /\ out.db.sequences.ingredient <= MaxIngredients + 1
        /\ recipes' = final.recipes
        /\ tags' = final.tags
        /\ ingredients' = final.ingredients
        /\ recipe_tags' = final.recipe_tags
        /\ recipe_ingredients' = final.recipe_ingredients
        /\ sequences' = final.sequences
        /\ UNCHANGED <<command, default_database,
                       users, tokens, workers>>
        /\ request' = req
        /\ response' = [status |-> out.status, data |-> out.data]

(* The response has been sent: no request is in flight any more.           *)
request_finished ==
    /\ request # NoRequest
    /\ request' = NoRequest
    /\ response' = NoResponse
    /\ UNCHANGED <<command, default_database,
                   recipes, tags, ingredients, recipe_tags,
                   recipe_ingredients, sequences, users, tokens, workers>>

recipe_list(user, query) ==
    Handle(Req("recipe", "list", user, 0, query, NoData),
           check_permissions(Db, user,
               RecipeViewSet_list(Db, user, query)))

recipe_create(user, data) ==
    Handle(Req("recipe", "create", user, 0, NoQuery, data),
           check_permissions(Db, user,
               RecipeViewSet_create(Db, user, data)))

recipe_retrieve(user, pk, query) ==
    Handle(Req("recipe", "retrieve", user, pk, query, NoData),
           check_permissions(Db, user,
               RecipeViewSet_retrieve(Db, user, pk, query)))

recipe_update(user, pk, query, data) ==
    Handle(Req("recipe", "update", user, pk, query, data),
           check_permissions(Db, user,
               RecipeViewSet_update(Db, user, pk, query, data, FALSE)))

recipe_partial_update(user, pk, query, data) ==
    Handle(Req("recipe", "partial_update", user, pk, query, data),
           check_permissions(Db, user,
               RecipeViewSet_update(Db, user, pk, query, data, TRUE)))

recipe_destroy(user, pk, query) ==
    Handle(Req("recipe", "destroy", user, pk, query, NoData),
           check_permissions(Db, user,
               RecipeViewSet_destroy(Db, user, pk, query)))

recipe_upload_image(user, pk, query, data) ==
    Handle(Req("recipe", "upload_image", user, pk, query, data),
           check_permissions(Db, user,
               RecipeViewSet_upload_image(Db, user, pk, query, data)))

attribute_list(view, user, query) ==
    \E out \in BaseRecipeAttributesViewSet_list(Db, view, user, query) :
        Handle(Req(view, "list", user, 0, query, NoData),
               check_permissions(Db, user, out))

attribute_update(view, user, pk, query, data) ==
    Handle(Req(view, "update", user, pk, query, data),
           check_permissions(Db, user,
               BaseRecipeAttributesViewSet_update(Db, view, user, pk, query,
                                                  data, FALSE)))

attribute_partial_update(view, user, pk, query, data) ==
    Handle(Req(view, "partial_update", user, pk, query, data),
           check_permissions(Db, user,
               BaseRecipeAttributesViewSet_update(Db, view, user, pk, query,
                                                  data, TRUE)))

attribute_destroy(view, user, pk, query) ==
    Handle(Req(view, "destroy", user, pk, query, NoData),
           check_permissions(Db, user,
               BaseRecipeAttributesViewSet_destroy(Db, view, user, pk, query)))

(* One request to the user API from dispatch to response.                  *)
HandleUser(req, out) ==
    LET failed == AtomicRequests /\ out.status >= HTTP_400_BAD_REQUEST
    IN  /\ Idle
        /\ Cardinality(DOMAIN out.users) <= MaxUsers
        /\ users' = IF failed THEN users ELSE out.users
        /\ tokens' = IF failed THEN tokens ELSE out.tokens
        /\ UNCHANGED <<command, default_database,
                       recipes, tags, ingredients, recipe_tags,
                       recipe_ingredients, sequences, workers>>
        /\ request' = req
        /\ response' = [status |-> out.status, data |-> out.data]

user_create(data) ==
    HandleUser(Req("user", "create", AnonymousUser, 0, NoQuery, data),
               CreateUserView(users, tokens, data))

user_token(data) ==
    HandleUser(Req("user", "token", AnonymousUser, 0, NoQuery, data),
               CreateTokenView(users, tokens, data))

profile_retrieve(user) ==
    HandleUser(Req("profile", "retrieve", user, 0, NoQuery,
                   UserData(None, None, None)),
               ManageUserView_retrieve(users, tokens, user))

profile_update(user, data) ==
    HandleUser(Req("profile", "update", user, 0, NoQuery, data),
               ManageUserView_update(users, tokens, user, data, FALSE))

profile_partial_update(user, data) ==
    HandleUser(Req("profile", "partial_update", user, 0, NoQuery, data),
               ManageUserView_update(users, tokens, user, data, TRUE))

(* ------------------- requests handled side by side --------------------- *)
(* Two server workers, each handling one recipe write at a time, statement *)
(* by statement.  The database runs each request's statements in a         *)
(* transaction at READ COMMITTED when AtomicRequests, and commits each     *)
(* statement on its own otherwise: a statement reads what is committed     *)
(* and what its own transaction wrote.                                     *)
Workers == {1, 2}

(* The writes a transaction has not committed yet.                         *)
EmptyTxn == [recipes |-> <<>>, tags |-> <<>>, add |-> {}, del |-> {}]

IdleWorker ==
    [pc |-> "idle", user |-> "none", action |-> "none", pk |-> 0,
     tags |-> <<>>, items |-> <<>>, tag |-> 0, txn |-> EmptyTxn,
     status |-> 0, peers |-> {}, owned |-> {}]

(* The store with a transaction's writes applied: what the transaction     *)
(* reads, and what is committed when it commits.                           *)
Apply(db, txn) ==
    [db EXCEPT !.recipes = txn.recipes @@ @,
               !.tags = txn.tags @@ @,
               !.recipe_tags = (@ \ txn.del) \cup txn.add]

Active(w) == workers[w].pc \notin {"idle", "done"}

(* The effect of one statement of worker w: its transaction now holds txn, *)
(* the sequences are seq, and the worker goes on as next says.  Without a  *)
(* per-request transaction the statement is committed at once.             *)
Statement(w, txn, seq, next) ==
    LET db == IF AtomicRequests THEN Db ELSE Apply(Db, txn)
    IN  /\ recipes' = db.recipes
        /\ tags' = db.tags
        /\ recipe_tags' = db.recipe_tags
        /\ sequences' = seq
        /\ workers' = [workers EXCEPT
                         ![w] = [next EXCEPT
                                   !.txn = IF AtomicRequests THEN txn ELSE EmptyTxn]]
        /\ UNCHANGED <<command, default_database,
                       ingredients, recipe_ingredients, users, tokens,
                       request, response>>

(* The worker takes a request: POST /recipe/recipes/ or PATCH              *)
(* /recipe/recipes/pk/ with a tags list and no ingredients.                *)
worker_begin(w, user, action, pk, tag_items) ==
    /\ workers[w].pc = "idle"
    /\ Idle
    /\ workers' = [workers EXCEPT
                     ![w] = [IdleWorker EXCEPT
                               !.pc = IF action = "create" THEN "create_recipe"
                                      ELSE "get_object",
                               !.user = user, !.action = action, !.pk = pk,
                               !.tags = tag_items, !.items = tag_items,
                               !.peers = {v \in Workers \ {w} : Active(v)},
                               !.owned = {tags[t].name :
                                             t \in {i \in DOMAIN tags :
                                                       tags[i].user = user}}]]
    /\ UNCHANGED <<command, default_database,
                   recipes, tags, ingredients, recipe_tags, recipe_ingredients,
                   sequences, users, tokens, request, response>>

(* RecipeSerializer.create: Recipe.objects.create                          *)
worker_create_recipe(w) ==
    LET me == workers[w]
        id == sequences.recipe
    IN  /\ me.pc = "create_recipe"
        /\ id <= MaxRecipes
        /\ Statement(w, [me.txn EXCEPT
                           !.recipes = (id :> [user |-> me.user, title |-> "t1",
                                               image |-> None]) @@ @],
                     [sequences EXCEPT !.recipe = id + 1],
                     [me EXCEPT !.pk = id,
                                !.pc = IF me.items = <<>> THEN "commit" ELSE "get"])

(* The lookup of the detail route: the requester's recipe, or 404.         *)
worker_get_object(w) ==
    LET me == workers[w]
        db == Apply(Db, me.txn)
        found == RecipeViewSet_get_object(db, me.user, me.pk, NoQuery)
    IN  /\ me.pc = "get_object"
        /\ Statement(w, me.txn, sequences,
                     IF found = HTTP_200_OK THEN [me EXCEPT !.pc = "clear"]
                     ELSE [me EXCEPT !.pc = "done", !.status = found])

(* RecipeSerializer.update: instance.tags.clear() deletes the association  *)
(* rows of the recipe that the statement sees.  It waits while another     *)
(* transaction holds uncommitted deletes of such rows.                     *)
worker_clear(w) ==
    LET me == workers[w]
        db == Apply(Db, me.txn)
    IN  /\ me.pc = "clear"
        /\ \A v \in Workers \ {w} :
               \A l \in workers[v].txn.del : l[1] # me.pk
        /\ Statement(w, [me.txn EXCEPT
                           !.del = @ \cup {l \in recipe_tags : l[1] = me.pk},
                           !.add = {l \in @ : l[1] # me.pk}],
                     sequences,
                     [me EXCEPT !.pc = IF me.items = <<>> THEN "commit" ELSE "get"])

(* get_or_create, the lookup: the requester's row of that name among the   *)
(* rows the statement sees.                                                *)
worker_get(w) ==
    LET me == workers[w]
        db == Apply(Db, me.txn)
        r == get_or_create(db.tags, sequences.tag, me.user, Head(me.items))
    IN  /\ me.pc = "get"
        /\ Statement(w, me.txn, sequences,
                     IF Has(r.exc)
                     THEN [me EXCEPT !.pc = "done", !.txn = EmptyTxn,
                                     !.status = HTTP_500_SERVER_ERROR]
                     ELSE IF r.created THEN [me EXCEPT !.pc = "create"]
                     ELSE [me EXCEPT !.pc = "add", !.tag = r.id])

(* get_or_create, the insert made when the lookup found no row.            *)
worker_create(w) ==
    LET me == workers[w]
        id == sequences.tag
    IN  /\ me.pc = "create"
        /\ id <= MaxTags
        /\ Statement(w, [me.txn EXCEPT
                           !.tags = (id :> [user |-> me.user,
                                            name |-> Head(me.items)]) @@ @],
                     [sequences EXCEPT !.tag = id + 1],
                     [me EXCEPT !.pc = "add", !.tag = id])

(* recipe.tags.add(tag_obj), then the next item of the list.               *)
worker_add(w) ==
    LET me == workers[w]
    IN  /\ me.pc = "add"
        /\ Statement(w, [me.txn EXCEPT !.add = @ \cup {<<me.pk, me.tag>>},
                                       !.del = @ \ {<<me.pk, me.tag>>}],
                     sequences,
                     [me EXCEPT !.items = Tail(@),
                                !.pc = IF Tail(me.items) = <<>> THEN "commit"
                                       ELSE "get"])

(* The request ends: its transaction is committed and the response sent.   *)
worker_commit(w) ==
    LET me == workers[w]
        db == Apply(Db, me.txn)
    IN  /\ me.pc = "commit"
        /\ recipes' = db.recipes
        /\ tags' = db.tags
        /\ recipe_tags' = db.recipe_tags
        /\ workers' = [workers EXCEPT
                         ![w] = [me EXCEPT
                                   !.pc = "done", !.txn = EmptyTxn,
                                   !.status = IF me.action = "create"
                                              THEN HTTP_201_CREATED
                                              ELSE HTTP_200_OK]]
        /\ UNCHANGED <<command, default_database,
                       ingredients, recipe_ingredients, sequences, users,
                       tokens, request, response>>

(* The worker is free for the next request.                                *)
worker_finished(w) ==
    /\ workers[w].pc = "done"
    /\ workers' = [workers EXCEPT ![w] = IdleWorker]
    /\ UNCHANGED <<command, default_database,
                   recipes, tags, ingredients, recipe_tags, recipe_ingredients,
                   sequences, users, tokens, request, response>>

(* --------------------------- wait_for_db -------------------------------- *)
(* Command.handle of wait_for_db, one step per statement.  command.pc is   *)
(* the statement it is at, command.stdout the lines written so far and     *)
(* command.last the outcome of the last self.check: "ok" or the exception  *)
(* it raised.                                                              *)
wait_time == 2

plain(text) == [style |-> "plain", text |-> text]

(* self.style.SUCCESS: the text marked with the SUCCESS style              *)
SUCCESS(text) == [style |-> "SUCCESS", text |-> text]

error_message == "Database not available,"

wait_messge == " waiting " \o ToString(wait_time) \o "s ..."

CheckErrors == {"Psycopg2Error", "OperationalError"}

CommandStarted ==
    [pc |-> "handle", database_up |-> FALSE, stdout |-> <<>>, last |-> None]

(* The command as it ended before the server was started.                  *)
CommandFinished ==
    [pc |-> "done", database_up |-> TRUE,
     stdout |-> <<plain("Waiting for database ..."),
                  SUCCESS("Database available!")>>,
     last |-> Some("ok")]

handle_entry ==
    /\ command.pc = "handle"
    /\ command' = [command EXCEPT
                     !.stdout = Append(@, plain("Waiting for database ...")),
                     !.database_up = FALSE,
                     !.pc = "while"]
    /\ UNCHANGED <<recipes, tags, ingredients, recipe_tags, recipe_ingredients,
                   sequences, users, tokens, workers, default_database,
                   request, response>>

handle_while ==
    /\ command.pc = "while"
    /\ command' = [command EXCEPT
                     !.pc = IF ~command.database_up THEN "check" ELSE "success"]
    /\ UNCHANGED <<recipes, tags, ingredients, recipe_tags, recipe_ingredients,
                   sequences, users, tokens, workers, default_database,
                   request, response>>

(* self.check(databases=["default"]): returns when the database accepts    *)
(* connections, raises one of the two OperationalErrors when it does not.  *)
handle_check(outcome) ==
    /\ command.pc = "check"
    /\ IF default_database THEN outcome = "ok"
       ELSE outcome \in CheckErrors /\ Len(command.stdout) <= MaxFailedChecks
    /\ command' = IF outcome = "ok"
                  THEN [command EXCEPT !.last = Some(outcome),
                                       !.database_up = TRUE,
                                       !.pc = "while"]
                  ELSE [command EXCEPT !.last = Some(outcome),
                                       !.pc = "except"]
    /\ UNCHANGED <<recipes, tags, ingredients, recipe_tags, recipe_ingredients,
                   sequences, users, tokens, workers, default_database,
                   request, response>>

(* the except clause ending the wait                                       *)
handle_except_gives_up ==
    /\ command.pc = "except"
    /\ command' = [command EXCEPT
                     !.stdout = Append(@, plain(error_message \o wait_messge)),
                     !.database_up = TRUE,
                     !.pc = "sleep"]
    /\ UNCHANGED <<recipes, tags, ingredients, recipe_tags, recipe_ingredients,
                   sequences, users, tokens, workers, default_database,
                   request, response>>

handle_except ==
    /\ command.pc = "except"
    /\ command' = [command EXCEPT
                     !.stdout = Append(@, plain(error_message \o wait_messge)),
                     !.pc = "sleep"]
    /\ UNCHANGED <<recipes, tags, ingredients, recipe_tags, recipe_ingredients,
                   sequences, users, tokens, workers, default_database,
                   request, response>>

(* time.sleep(wait_time)                                                   *)
handle_sleep ==
    /\ command.pc = "sleep"
    /\ command' = [command EXCEPT !.pc = "while"]
    /\ UNCHANGED <<recipes, tags, ingredients, recipe_tags, recipe_ingredients,
                   sequences, users, tokens, workers, default_database,
                   request, response>>

handle_success ==
    /\ command.pc = "success"
    /\ command' = [command EXCEPT
                     !.stdout = Append(@, SUCCESS("Database available!")),
                     !.pc = "done"]
    /\ UNCHANGED <<recipes, tags, ingredients, recipe_tags, recipe_ingredients,
                   sequences, users, tokens, workers, default_database,
                   request, response>>

(* Every step of the command                                               *)
handle ==
    \/ handle_entry
    \/ handle_while
    \/ \E outcome \in {"ok"} \cup CheckErrors : handle_check(outcome)
    \/ handle_except
    \/ handle_sleep
    \/ handle_success

(* The database server starts or stops accepting connections.              *)
database_starts ==
    /\ ~default_database
    /\ default_database' = TRUE
    /\ UNCHANGED <<recipes, tags, ingredients, recipe_tags, recipe_ingredients,
                   sequences, users, tokens, workers, command,
                   request, response>>

database_stops ==
    /\ default_database
    /\ default_database' = FALSE
    /\ UNCHANGED <<recipes, tags, ingredients, recipe_tags, recipe_ingredients,
                   sequences, users, tokens, workers, command,
                   request, response>>

(* The database the recipe endpoints are exercised on: the two users are   *)
(* registered, as the tests' setUp leaves it, and nothing else is stored.  *)
RegisteredUsers ==
    [u \in Users |->
        [email |-> IF u = "u1" THEN <<"a", "@", "x">> ELSE <<"b", "@", "x">>,
         password |-> <<"p", "p", "p", "p", "p">>,
         name |-> "n1"]]

Init ==
    /\ recipes = <<>>
    /\ tags = <<>>
    /\ ingredients = <<>>
    /\ recipe_tags = {}
    /\ recipe_ingredients = {}
    /\ sequences = [recipe |-> 1, tag |-> 1, ingredient |-> 1]
    /\ users = RegisteredUsers
    /\ tokens = {}
    /\ workers = [w \in Workers |-> IdleWorker]
    /\ command = CommandFinished
    /\ default_database = TRUE
    /\ request = NoRequest
    /\ response = NoResponse

(* ------------------------------- inputs -------------------------------- *)
Optional(S) == {None} \cup {Some(x) : x \in S}

Pks(max) == 1..max

Views == {"tag", "ingredient"}

AttributePks == Pks(MaxTags) \cup Pks(MaxIngredients)

(* Payload lists of nested tags and of nested ingredients                  *)
TagLists == {<<>>, <<"a">>, <<"a", "b">>, <<"a", "a">>}

IngredientLists == {<<>>, <<"a">>, <<"a", "a">>}

(* The tags and ingredients fields of a recipe payload: either field       *)
(* alone, or both together.                                                *)
NestedFields ==
    {<<tl, None>> : tl \in Optional(TagLists)}
        \cup {<<None, Some(il)>> : il \in IngredientLists}
        \cup {<<Some(l), Some(l)>> : l \in IngredientLists}

(* A payload that also names a user                                        *)
WithUser(data, user) == [user |-> Some(user)] @@ data

(* Spec: every endpoint but the image upload, with the full range of       *)
(* nested lists on the recipe writes and no query string.                  *)
CreateData ==
    {Data(Some("t1"), f[1], f[2], None, None) : f \in NestedFields}
        \cup {NoData}
        \cup {WithUser(Data(Some("t1"), Some(<<"a">>), None, None, None), u) :
                  u \in Users}

PatchData ==
    {Data(None, f[1], f[2], None, None) : f \in NestedFields}
        \cup {WithUser(Data(Some("t1"), None, None, None, None), u) : u \in Users}

PutData ==
    {NoData, Data(Some("t1"), Some(<<"a", "b">>), Some(<<>>), None, None)}

PutNameData == {Data(None, None, None, n, None) : n \in Optional({"a"})}

PatchNameData ==
    {Data(None, None, None, n, None) : n \in Optional({"b"})}
        \cup {WithUser(NoData, u) : u \in Users}

Next ==
    \/ request_finished
    \/ Idle /\ \E u \in Users : recipe_list(u, NoQuery)
    \/ Idle /\ \E u \in Users, d \in CreateData : recipe_create(u, d)
    \/ Idle /\ \E u \in Users, pk \in Pks(MaxRecipes) : recipe_retrieve(u, pk, NoQuery)
    \/ Idle /\ \E u \in Users, pk \in Pks(MaxRecipes), d \in PutData :
           recipe_update(u, pk, NoQuery, d)
    \/ Idle /\ \E u \in Users, pk \in Pks(MaxRecipes), d \in PatchData :
           recipe_partial_update(u, pk, NoQuery, d)
    \/ Idle /\ \E u \in Users, pk \in Pks(MaxRecipes) : recipe_destroy(u, pk, NoQuery)
    \/ Idle /\ \E v \in Views, u \in Users : attribute_list(v, u, NoQuery)
    \/ Idle /\ \E v \in Views, u \in Users, pk \in AttributePks, d \in PutNameData :
           attribute_update(v, u, pk, NoQuery, d)
    \/ Idle /\ \E v \in Views, u \in Users, pk \in AttributePks, d \in PatchNameData :
           attribute_partial_update(v, u, pk, NoQuery, d)
    \/ Idle /\ \E v \in Views, u \in Users, pk \in AttributePks :
           attribute_destroy(v, u, pk, NoQuery)

Spec == Init /\ [][Next]_vars


(* SpecList: the list routes with the full range of query strings, over    *)
(* stores built by a few writes.                                           *)
IdStrings == {<<"1">>, <<"2">>, <<"1", ",", "2">>}

BadStrings == {<<"x">>, <<"1", ",", "x">>, <<"1", ",">>}

TagParams == Optional({<<>>} \cup IdStrings \cup BadStrings)

IngredientParams == Optional({<<>>, <<"1">>, <<"1", ",", "2">>, <<"x">>})

ListQueries == {Query(t, i, None) : t \in TagParams, i \in IngredientParams}

AssignedOnlyQueries ==
    {Query(None, None, a) :
        a \in Optional({<<>>, <<"0">>, <<"1">>, <<"2">>, <<"x">>})}

ListCreateData ==
    {Data(Some("t1"), None, None, None, None),
     Data(Some("t1"), Some(<<"a">>), None, None, None),
     Data(Some("t1"), Some(<<"a", "b">>), None, None, None),
     Data(Some("t1"), None, Some(<<"a">>), None, None),
     Data(Some("t1"), Some(<<"b">>), Some(<<"a">>), None, None)}

ListPatchData ==
    {Data(None, Some(<<>>), None, None, None),
     Data(None, Some(<<"a">>), None, None, None),
     Data(None, Some(<<"b">>), Some(<<>>), None, None)}

NextList ==
    \/ request_finished
    \/ Idle /\ \E u \in Users, q \in ListQueries : recipe_list(u, q)
    \/ Idle /\ \E u \in Users, d \in ListCreateData : recipe_create(u, d)
    \/ Idle /\ \E u \in Users, pk \in Pks(MaxRecipes), d \in ListPatchData :
           recipe_partial_update(u, pk, NoQuery, d)
    \/ Idle /\ \E u \in Users, pk \in Pks(MaxRecipes) :
           recipe_destroy(u, pk, NoQuery)
    \/ Idle /\ \E v \in Views, u \in Users, q \in AssignedOnlyQueries :
           attribute_list(v, u, q)
    \/ Idle /\ \E v \in Views, u \in Users, pk \in AttributePks :
           attribute_destroy(v, u, pk, NoQuery)

SpecList == Init /\ [][NextList]_vars

(* SpecDetail: the detail routes of every endpoint, with and without a     *)
(* query string, by the owner and by the other user.                       *)
DetailQueries ==
    {NoQuery, Query(Some(<<"1">>), None, None), Query(Some(<<"x">>), None, None),
     Query(None, Some(<<"1">>), None)}

AttributeDetailQueries ==
    {NoQuery, Query(None, None, Some(<<"1">>)), Query(None, None, Some(<<"x">>))}

DetailCreateData ==
    {NoData,
     Data(Some("t1"), None, None, None, None),
     Data(Some("t1"), Some(<<"b">>), Some(<<"a">>), None, None)}

DetailPatchData ==
    {Data(Some("t2"), None, None, None, None),
     Data(None, Some(<<>>), None, None, None)}

DetailPutData == {NoData, Data(Some("t2"), None, Some(<<>>), None, None)}

DetailPutNameData == {NoData, Data(None, None, None, Some("a"), None)}

DetailPatchNameData == {NoData}

ImageData ==
    {Data(None, None, None, None, i) :
        i \in Optional({"jpeg", "not_an_image"})}

NextDetail ==
    \/ request_finished
    \/ Idle /\ \E u \in Users, d \in DetailCreateData : recipe_create(u, d)
    \/ Idle /\ \E u \in Users, pk \in Pks(MaxRecipes), q \in DetailQueries :
           recipe_retrieve(u, pk, q)
    \/ Idle /\ \E u \in Users, pk \in Pks(MaxRecipes), q \in DetailQueries,
          d \in DetailPutData : recipe_update(u, pk, q, d)
    \/ Idle /\ \E u \in Users, pk \in Pks(MaxRecipes), q \in DetailQueries,
          d \in DetailPatchData : recipe_partial_update(u, pk, q, d)
    \/ Idle /\ \E u \in Users, pk \in Pks(MaxRecipes), q \in DetailQueries :
           recipe_destroy(u, pk, q)
    \/ Idle /\ \E u \in Users, pk \in Pks(MaxRecipes), q \in DetailQueries,
          d \in ImageData : recipe_upload_image(u, pk, q, d)
    \/ Idle /\ \E v \in Views, u \in Users, pk \in AttributePks,
          q \in AttributeDetailQueries, d \in DetailPutNameData :
           attribute_update(v, u, pk, q, d)
    \/ Idle /\ \E v \in Views, u \in Users, pk \in AttributePks,
          q \in AttributeDetailQueries, d \in DetailPatchNameData :
           attribute_partial_update(v, u, pk, q, d)
    \/ Idle /\ \E v \in Views, u \in Users, pk \in AttributePks,
          q \in AttributeDetailQueries : attribute_destroy(v, u, pk, q)

SpecDetail == Init /\ [][NextDetail]_vars


(* SpecUser: registration, token and profile requests on a database that   *)
(* starts without users.                                                   *)
InitUser ==
    /\ recipes = <<>>
    /\ tags = <<>>
    /\ ingredients = <<>>
    /\ recipe_tags = {}
    /\ recipe_ingredients = {}
    /\ sequences = [recipe |-> 1, tag |-> 1, ingredient |-> 1]
    /\ users = <<>>
    /\ tokens = {}
    /\ workers = [w \in Workers |-> IdleWorker]
    /\ command = CommandFinished
    /\ default_database = TRUE
    /\ request = NoRequest
    /\ response = NoResponse

Emails == {<<"a", "@", "x">>, <<"b", "@", "x">>, <<"b", "a", "d">>}

(* blank, four characters, five, five of which one is a leading blank,     *)
(* five followed by a blank, and another five                              *)
Passwords ==
    {<<>>, <<"p", "p", "p", "p">>, <<"p", "p", "p", "p", "p">>,
     <<" ", "p", "p", "p", "p">>, <<"p", "p", "p", "p", "p", " ">>,
     <<"q", "q", "q", "q", "q">>}

RegisterData ==
    {UserData(e, pw, Some("n1")) : e \in Optional(Emails), pw \in Optional(Passwords)}
        \cup {UserData(Some(<<"a", "@", "x">>), Some(<<"p", "p", "p", "p", "p">>), None)}

TokenData ==
    {UserData(e, pw, None) : e \in Optional(Emails), pw \in Optional(Passwords)}

ProfilePatchData ==
    {UserData(e, pw, n) :
        e \in Optional({<<"a", "@", "x">>, <<"b", "@", "x">>}),
        pw \in Optional({<<"p", "p", "p", "p">>, <<"q", "q", "q", "q", "q">>}),
        n \in Optional({"n2"})}

ProfilePutData ==
    {UserData(None, None, None),
     UserData(Some(<<"b", "@", "x">>), Some(<<"p", "p", "p", "p", "p">>), Some("n1"))}

Principals == DOMAIN users \cup {AnonymousUser}

NextUser ==
    \/ request_finished
    \/ Idle /\ \E d \in RegisterData : user_create(d)
    \/ Idle /\ \E d \in TokenData : user_token(d)
    \/ Idle /\ \E u \in Principals : profile_retrieve(u)
    \/ Idle /\ \E u \in Principals, d \in ProfilePutData : profile_update(u, d)
    \/ Idle /\ \E u \in Principals, d \in ProfilePatchData :
           profile_partial_update(u, d)

SpecUser == InitUser /\ [][NextUser]_vars

(* SpecAuth: every recipe, tag, ingredient and profile route, requested    *)
(* with and without credentials.                                           *)
AuthPrincipals == {"u1", AnonymousUser}

AuthCreateData ==
    {Data(Some("t1"), Some(<<"a">>), Some(<<"a">>), None, None)}

AuthPatchData == {Data(Some("t2"), Some(<<>>), None, None, None)}

AuthNameData == {Data(None, None, None, Some("b"), None)}

AuthImageData == {Data(None, None, None, None, Some("jpeg"))}

AuthProfileData == {UserData(None, None, Some("n2"))}

AuthProfilePutData ==
    {UserData(Some(<<"a", "@", "x">>), Some(<<"q", "q", "q", "q", "q">>), Some("n1"))}

NextAuth ==
    \/ request_finished
    \/ Idle /\ \E u \in AuthPrincipals : recipe_list(u, NoQuery)
    \/ Idle /\ \E u \in AuthPrincipals, d \in AuthCreateData : recipe_create(u, d)
    \/ Idle /\ \E u \in AuthPrincipals, pk \in Pks(MaxRecipes) :
           recipe_retrieve(u, pk, NoQuery)
    \/ Idle /\ \E u \in AuthPrincipals, pk \in Pks(MaxRecipes), d \in AuthCreateData :
           recipe_update(u, pk, NoQuery, d)
    \/ Idle /\ \E u \in AuthPrincipals, pk \in Pks(MaxRecipes), d \in AuthPatchData :
           recipe_partial_update(u, pk, NoQuery, d)
    \/ Idle /\ \E u \in AuthPrincipals, pk \in Pks(MaxRecipes) :
           recipe_destroy(u, pk, NoQuery)
    \/ Idle /\ \E u \in AuthPrincipals, pk \in Pks(MaxRecipes), d \in AuthImageData :
           recipe_upload_image(u, pk, NoQuery, d)
    \/ Idle /\ \E v \in Views, u \in AuthPrincipals : attribute_list(v, u, NoQuery)
    \/ Idle /\ \E v \in Views, u \in AuthPrincipals, pk \in AttributePks,
          d \in AuthNameData : attribute_update(v, u, pk, NoQuery, d)
    \/ Idle /\ \E v \in Views, u \in AuthPrincipals, pk \in AttributePks,
          d \in AuthNameData : attribute_partial_update(v, u, pk, NoQuery, d)
    \/ Idle /\ \E v \in Views, u \in AuthPrincipals, pk \in AttributePks :
           attribute_destroy(v, u, pk, NoQuery)
    \/ Idle /\ \E u \in AuthPrincipals : profile_retrieve(u)
    \/ Idle /\ \E u \in AuthPrincipals, d \in AuthProfilePutData :
           profile_update(u, d)
    \/ Idle /\ \E u \in AuthPrincipals, d \in AuthProfileData :
           profile_partial_update(u, d)

SpecAuth == Init /\ [][NextAuth]_vars

(* SpecConcurrent: recipe creates and updates of one user, handled by two  *)
(* workers side by side.                                                   *)
ConcurrentTagLists == {<<>>, <<"a">>, <<"b">>, <<"a", "b">>}

NextConcurrent ==
    \/ \E w \in Workers, l \in ConcurrentTagLists :
           worker_begin(w, "u1", "create", 0, l)
    \/ \E w \in Workers, pk \in Pks(MaxRecipes), l \in ConcurrentTagLists :
           worker_begin(w, "u1", "partial_update", pk, l)
    \/ \E w \in Workers : worker_create_recipe(w)
    \/ \E w \in Workers : worker_get_object(w)
    \/ \E w \in Workers : worker_clear(w)
    \/ \E w \in Workers : worker_get(w)
    \/ \E w \in Workers : worker_create(w)
    \/ \E w \in Workers : worker_add(w)
    \/ \E w \in Workers : worker_commit(w)
    \/ \E w \in Workers : worker_finished(w)

SpecConcurrent == Init /\ [][NextConcurrent]_vars


(* SpecWaitForDb: the wait_for_db command run from its entry against a     *)
(* database server that comes up and goes down at any time.                *)
InitWaitForDb ==
    /\ recipes = <<>>
    /\ tags = <<>>
    /\ ingredients = <<>>
    /\ recipe_tags = {}
    /\ recipe_ingredients = {}
    /\ sequences = [recipe |-> 1, tag |-> 1, ingredient |-> 1]
    /\ users = <<>>
    /\ tokens = {}
    /\ workers = [w \in Workers |-> IdleWorker]
    /\ command = CommandStarted
    /\ default_database \in BOOLEAN
    /\ request = NoRequest
    /\ response = NoResponse

NextWaitForDb ==
    \/ handle
    \/ database_starts
    \/ database_stops

SpecWaitForDb == InitWaitForDb /\ [][NextWaitForDb]_vars

(* The command is a running process: a step it can take is taken.          *)
SpecWaitForDbFair == SpecWaitForDb /\ WF_vars(handle)

(* ================================ claims =============================== *)
DetailActions ==
    {"retrieve", "update", "partial_update", "destroy", "upload_image"}

UpdateActions == {"update", "partial_update"}

Succeeded == response.status \in {HTTP_200_OK, HTTP_201_CREATED, HTTP_204_NO_CONTENT}

TagsOf(links, recipe) == {l[2] : l \in {m \in links : m[1] = recipe}}

OwnedBy(table, user) == {pk \in DOMAIN table : table[pk].user = user}

(* C1: a read, update, delete or image upload on a recipe by a user who    *)
(* is not its owner is answered 404 Not Found, and the store is the same   *)
(* afterwards.                                                             *)
C1_OtherUsersRecipeNotFound ==
    [][(/\ request'.view = "recipe"
        /\ request'.action \in DetailActions
        /\ request'.pk \in DOMAIN recipes
        /\ recipes[request'.pk].user # request'.user)
       => (response'.status = HTTP_404_NOT_FOUND /\ store' = store)]_vars

(* C2: a list of recipes, tags or ingredients holds only records owned by  *)
(* the requester, whatever the query string; with no query parameter it    *)
(* succeeds and holds every record the requester owns.                     *)
ListedTable ==
    IF request.view = "recipe" THEN recipes
    ELSE IF request.view = "tag" THEN tags ELSE ingredients

C2_ListOnlyOwnRecords ==
    request.action = "list" =>
        /\ \A i \in 1..Len(response.data) :
               /\ response.data[i] \in DOMAIN ListedTable
               /\ ListedTable[response.data[i]].user = request.user
        /\ request.query = NoQuery =>
               /\ response.status = HTTP_200_OK
               /\ Range(response.data) = OwnedBy(ListedTable, request.user)

(* C2 happens: a filtered list answered with some of the requester's       *)
(* records while the other user owns records of the same kind.             *)
C2_Witness ==
    /\ request.action = "list"
    /\ request.query # NoQuery
    /\ response.status = HTTP_200_OK
    /\ response.data # <<>>
    /\ \E pk \in DOMAIN ListedTable : ListedTable[pk].user # request.user

(* C3: every tag and every ingredient associated with a recipe is owned by *)
(* the owner of that recipe.                                               *)
C3_AssociationsSameOwner ==
    /\ \A l \in recipe_tags :
           /\ l[1] \in DOMAIN recipes
           /\ l[2] \in DOMAIN tags
           /\ tags[l[2]].user = recipes[l[1]].user
    /\ \A l \in recipe_ingredients :
           /\ l[1] \in DOMAIN recipes
           /\ l[2] \in DOMAIN ingredients
           /\ ingredients[l[2]].user = recipes[l[1]].user

(* C3 happens: a recipe got a tag of a name under which the other user     *)
(* owns a tag too.                                                         *)
C3_Witness ==
    /\ request.view = "recipe"
    /\ request.action \in UpdateActions \cup {"create"}
    /\ Succeeded
    /\ \E l \in recipe_tags, t \in DOMAIN tags :
           /\ l[1] = response.data[1]
           /\ tags[t].user # request.user
           /\ tags[t].name = tags[l[2]].name


NamedBy(table, user, names) ==
    {pk \in OwnedBy(table, user) : table[pk].name \in names}

(* C4: after a successful recipe update that provides the tags             *)
(* (ingredients) field with list L, the recipe's tags (ingredients) are    *)
(* exactly the requester's rows whose names occur in L; none for an empty  *)
(* L.                                                                      *)
C4_UpdateReplacesAssociations ==
    (/\ request.view = "recipe"
     /\ request.action \in UpdateActions
     /\ response.status = HTTP_200_OK) =>
        /\ Has(request.data.tags) =>
               TagsOf(recipe_tags, request.pk)
                   = NamedBy(tags, request.user, Range(Val(request.data.tags)))
        /\ Has(request.data.ingredients) =>
               TagsOf(recipe_ingredients, request.pk)
                   = NamedBy(ingredients, request.user,
                             Range(Val(request.data.ingredients)))

(* C4 happens: an update with a non-empty tags list went through while the *)
(* requester owns a tag the list does not name.                            *)
C4_Witness ==
    /\ request.view = "recipe"
    /\ request.action \in UpdateActions
    /\ response.status = HTTP_200_OK
    /\ Has(request.data.tags)
    /\ TagsOf(recipe_tags, request.pk) # {}
    /\ \E t \in OwnedBy(tags, request.user) :
           tags[t].name \notin Range(Val(request.data.tags))

(* C5: a recipe update that omits the tags field changes no tag            *)
(* association, and one that omits the ingredients field changes no        *)
(* ingredient association, whatever else the payload holds.                *)
C5_OmittedFieldUntouched ==
    [][(/\ request'.view = "recipe"
        /\ request'.action \in UpdateActions) =>
           /\ ~Has(request'.data.tags) => recipe_tags' = recipe_tags
           /\ ~Has(request'.data.ingredients) =>
                  recipe_ingredients' = recipe_ingredients]_vars

(* C5 happens: an update that gave ingredients and no tags went through on *)
(* a recipe that has tags.                                                 *)
C5_Witness ==
    /\ request.view = "recipe"
    /\ request.action \in UpdateActions
    /\ response.status = HTTP_200_OK
    /\ ~Has(request.data.tags)
    /\ Has(request.data.ingredients)
    /\ TagsOf(recipe_tags, request.pk) # {}

(* What reconciling the names did to a table: a name the user owned is     *)
(* kept as it was and associated, a name the user did not own has one new  *)
(* row that is associated, and nothing else was added or changed.          *)
Reconciled(before, after, links, user, recipe, names) ==
    /\ \A n \in names :
           LET old == NamedBy(before, user, {n})
               new == NamedBy(after, user, {n})
           IN  /\ old # {} => new = old
               /\ old = {} => Cardinality(new) = 1 /\ new \cap DOMAIN before = {}
               /\ \A t \in new : <<recipe, t>> \in links
    /\ Cardinality(DOMAIN after) = Cardinality(DOMAIN before)
           + Cardinality({n \in names : NamedBy(before, user, {n}) = {}})
    /\ \A t \in DOMAIN before : t \in DOMAIN after /\ after[t] = before[t]

(* C6: a recipe created or updated with a tag (ingredient) name the        *)
(* requester already owns is associated with that row and no row is added; *)
(* with a name the requester does not own, one row of that name is created *)
(* for the requester and associated, also when another user owns that name.*)
C6_GetOrCreateReuses ==
    [][(/\ request'.view = "recipe"
        /\ request'.action \in UpdateActions \cup {"create"}
        /\ response'.status \in {HTTP_200_OK, HTTP_201_CREATED}) =>
           /\ Has(request'.data.tags) =>
                  Reconciled(tags, tags', recipe_tags', request'.user,
                             response'.data[1], Range(Val(request'.data.tags)))
           /\ Has(request'.data.ingredients) =>
                  Reconciled(ingredients, ingredients', recipe_ingredients',
                             request'.user, response'.data[1],
                             Range(Val(request'.data.ingredients)))]_vars

(* C6 happens: a recipe was created with a list naming a tag that another  *)
(* recipe of the requester already had, and a tag the requester did not    *)
(* own.                                                                    *)
C6_Witness ==
    /\ request.view = "recipe"
    /\ request.action = "create"
    /\ response.status = HTTP_201_CREATED
    /\ \E t \in TagsOf(recipe_tags, response.data[1]) :
           \E r \in DOMAIN recipes :
               r # response.data[1] /\ t \in TagsOf(recipe_tags, r)
    /\ \E t \in TagsOf(recipe_tags, response.data[1]) :
           \A r \in DOMAIN recipes :
               r # response.data[1] => t \notin TagsOf(recipe_tags, r)

(* C7: no user owns two tags of the same name, nor two ingredients of the  *)
(* same name.                                                              *)
UniqueByUserAndName(table) ==
    \A p \in DOMAIN table, q \in DOMAIN table :
        (table[p].user = table[q].user /\ table[p].name = table[q].name)
            => p = q

C7_UniqueUserName ==
    UniqueByUserAndName(tags) /\ UniqueByUserAndName(ingredients)

HasBadToken(param) ==
    /\ Truthy(param)
    /\ \E i \in 1..Len(Split(Val(param))) : ~Has(int(Split(Val(param))[i]))

C9_MalformedIdListIsClientError ==
    [][(/\ request'.view = "recipe"
        /\ request'.action = "list"
        /\ \/ HasBadToken(request'.query.tags)
           \/ HasBadToken(request'.query.ingredients)) =>
           (response'.status = HTTP_400_BAD_REQUEST /\ store' = store)]_vars

(* C10: a recipe list with tags=<ids> holds exactly the requester's        *)
(* recipes that have at least one of the tags, each once; the same for     *)
(* ingredients=<ids>.                                                      *)
NoDuplicates(rows) ==
    \A i \in 1..Len(rows), j \in 1..Len(rows) : rows[i] = rows[j] => i = j

IdsIn(param) == Range(Val(_params_to_ints(Val(param))))

HavingOneOf(links, user, ids) ==
    {r \in OwnedBy(recipes, user) : TagsOf(links, r) \cap ids # {}}

C10_IdFilterIsUnion ==
    (/\ request.view = "recipe"
     /\ request.action = "list") =>
        /\ (/\ Truthy(request.query.tags)
            /\ ~HasBadToken(request.query.tags)
            /\ ~Truthy(request.query.ingredients)) =>
               /\ response.status = HTTP_200_OK
               /\ NoDuplicates(response.data)
               /\ Range(response.data)
                      = HavingOneOf(recipe_tags, request.user,
                                    IdsIn(request.query.tags))
        /\ (/\ Truthy(request.query.ingredients)
            /\ ~HasBadToken(request.query.ingredients)
            /\ ~Truthy(request.query.tags)) =>
               /\ response.status = HTTP_200_OK
               /\ NoDuplicates(response.data)
               /\ Range(response.data)
                      = HavingOneOf(recipe_ingredients, request.user,
                                    IdsIn(request.query.ingredients))

(* C10 happens: a list filtered by two tag ids holds a recipe that has     *)
(* both tags and leaves out a recipe of the requester that has neither.    *)
C10_Witness ==
    /\ request.view = "recipe"
    /\ request.action = "list"
    /\ response.status = HTTP_200_OK
    /\ Truthy(request.query.tags)
    /\ ~Truthy(request.query.ingredients)
    /\ \E r \in Range(response.data) :
           Cardinality(TagsOf(recipe_tags, r) \cap IdsIn(request.query.tags)) > 1
    /\ OwnedBy(recipes, request.user) \ Range(response.data) # {}

(* C11: a tag (ingredient) list with assigned_only=1 holds exactly the     *)
(* requester's tags (ingredients) that are on at least one recipe, each    *)
(* once; with assigned_only=0 or without the flag it holds all of the      *)
(* requester's, each once.                                                 *)
C11_AssignedOnlyExactlyOnce ==
    (/\ request.view \in Views
     /\ request.action = "list") =>
        /\ request.query.assigned_only = Some(<<"1">>) =>
               /\ response.status = HTTP_200_OK
               /\ NoDuplicates(response.data)
               /\ Range(response.data)
                      = {t \in OwnedBy(ListedTable, request.user) :
                            \E l \in ThroughOf(Db, request.view) : l[2] = t}
        /\ request.query.assigned_only \in {None, Some(<<"0">>)} =>
               /\ response.status = HTTP_200_OK
               /\ NoDuplicates(response.data)
               /\ Range(response.data) = OwnedBy(ListedTable, request.user)

(* C11 happens: a list with assigned_only=1 holds a tag that is on two     *)
(* recipes and leaves out a tag of the requester that is on none.          *)
C11_Witness ==
    /\ request.view = "tag"
    /\ request.action = "list"
    /\ request.query.assigned_only = Some(<<"1">>)
    /\ response.status = HTTP_200_OK
    /\ \E t \in Range(response.data) :
           Cardinality({l \in recipe_tags : l[2] = t}) > 1
    /\ OwnedBy(tags, request.user) \ Range(response.data) # {}

(* Everything the database holds.                                          *)
database == <<store, sequences, users, tokens>>

(* C12: a request without credentials to a recipe, tag, ingredient or      *)
(* profile route is answered 401 with an empty body and changes nothing in *)
(* the database.                                                           *)
C12_AuthenticationRequired ==
    [][(/\ request'.user = AnonymousUser
        /\ request'.view \in {"recipe", "tag", "ingredient", "profile"})
       => /\ response'.status = HTTP_401_UNAUTHORIZED
          /\ response'.data = <<>>
          /\ database' = database]_vars

(* C12 happens: a delete without credentials was sent for a recipe that    *)
(* exists and has a tag.                                                   *)
C12_Witness ==
    /\ request.user = AnonymousUser
    /\ request.view = "recipe"
    /\ request.action = "destroy"
    /\ request.pk \in DOMAIN recipes
    /\ TagsOf(recipe_tags, request.pk) # {}

EmailRegistered(table, email) == \E u \in DOMAIN table : table[u].email = email

UniqueEmails ==
    \A u \in DOMAIN users, v \in DOMAIN users :
        users[u].email = users[v].email => u = v

(* C13: a registration whose email is already registered, or whose         *)
(* password has fewer than 5 characters, is answered 400 and leaves the    *)
(* users as they were; and at all times no two users have the same email.  *)
C13_RegistrationRejected ==
    /\ []UniqueEmails
    /\ [][(/\ request'.view = "user"
           /\ request'.action = "create"
           /\ \/ /\ Has(request'.data.email)
                 /\ EmailRegistered(users, Val(request'.data.email))
              \/ /\ Has(request'.data.password)
                 /\ Len(Val(request'.data.password)) < MinLength)
          => (response'.status = HTTP_400_BAD_REQUEST /\ users' = users)]_vars

(* C13 happens: a registration complete in every field, with a password    *)
(* long enough, was refused because its email is registered.               *)
C13_Witness ==
    /\ request.view = "user"
    /\ request.action = "create"
    /\ response.status = HTTP_400_BAD_REQUEST
    /\ Has(request.data.email) /\ Has(request.data.password) /\ Has(request.data.name)
    /\ Len(strip(Val(request.data.password))) >= MinLength
    /\ EmailRegistered(users, Val(request.data.email))

(* The users whose current email and password are the ones given.          *)
CredentialsOf(table, data) ==
    {u \in DOMAIN table :
        /\ Has(data.email) /\ table[u].email = Val(data.email)
        /\ Has(data.password) /\ Val(data.password) # <<>>
        /\ table[u].password = Val(data.password)}

(* C14: a token request is answered 200 with the token of the user whose   *)
(* current email and password it gives; with a wrong password, an unknown  *)
(* email, a blank or a missing password it is answered 400 without a       *)
(* token, and no token row is written.                                     *)
C14_TokenIffCredentialsMatch ==
    [][(/\ request'.view = "user"
        /\ request'.action = "token")
       => LET match == CredentialsOf(users, request'.data)
          IN  /\ match # {} =>
                     /\ response'.status = HTTP_200_OK
                     /\ Len(response'.data) = 1
                     /\ response'.data[1] \in match
                     /\ response'.data[1] \in tokens'
              /\ match = {} =>
                     /\ response'.status = HTTP_400_BAD_REQUEST
                     /\ response'.data = <<>>
                     /\ tokens' = tokens]_vars

(* C14 happens: a token was issued to a user while another user is         *)
(* registered under another email with another password.                   *)
C14_Witness ==
    /\ request.view = "user"
    /\ request.action = "token"
    /\ response.status = HTTP_200_OK
    /\ \E u \in DOMAIN users :
           /\ u # response.data[1]
           /\ users[u].password # users[response.data[1]].password

(* The lookup of a detail route finds the requester's recipe: the query    *)
(* string is well-formed and the recipe matches the filters it gives.      *)
LookupFinds(query, pk) ==
    /\ ~HasBadToken(query.tags)
    /\ ~HasBadToken(query.ingredients)
    /\ Truthy(query.tags) => TagsOf(recipe_tags, pk) \cap IdsIn(query.tags) # {}
    /\ Truthy(query.ingredients) =>
           TagsOf(recipe_ingredients, pk) \cap IdsIn(query.ingredients) # {}

OwnersKept(before, after) ==
    \A pk \in DOMAIN before \cap DOMAIN after : after[pk].user = before[pk].user

(* C16: a recipe created through the API is owned by the requester,        *)
(* whatever the payload holds, and no request changes the owner of an      *)
(* existing recipe, tag or ingredient, an update naming another user       *)
(* included.                                                               *)
C16_OwnerFixed ==
    [][/\ \A pk \in DOMAIN recipes' \ DOMAIN recipes :
              recipes'[pk].user = request'.user
       /\ OwnersKept(recipes, recipes')
       /\ OwnersKept(tags, tags')
       /\ OwnersKept(ingredients, ingredients')]_vars

(* C16 happens: an update naming the other user went through on a recipe   *)
(* that went on being the requester's.                                     *)
C16_Witness ==
    /\ request.view = "recipe"
    /\ request.action \in UpdateActions
    /\ response.status = HTTP_200_OK
    /\ "user" \in DOMAIN request.data
    /\ request.data.user # Some(request.user)
    /\ recipes[request.pk].user = request.user

(* The list with every repeated name dropped after its first occurrence.   *)
RECURSIVE Dedup(_)
Dedup(l) ==
    IF l = <<>> THEN <<>>
    ELSE LET rest == Dedup(SubSeq(l, 1, Len(l) - 1))
             last == l[Len(l)]
         IN  IF last \in Range(rest) THEN rest ELSE Append(rest, last)

DedupData(data) ==
    [data EXCEPT !.tags = IF Has(@) THEN Some(Dedup(Val(@))) ELSE @,
                 !.ingredients = IF Has(@) THEN Some(Dedup(Val(@))) ELSE @]

HasRepeats(field) == Has(field) /\ ~NoDuplicates(Val(field))

(* What the recipe write req does to the store db.                         *)
RecipeWrite(db, req, data) ==
    IF req.action = "create" THEN RecipeViewSet_create(db, req.user, data)
    ELSE RecipeViewSet_update(db, req.user, req.pk, req.query, data,
                              req.action = "partial_update")

(* One new row at most for the name, and exactly one association of the    *)
(* recipe with a row of that name.                                         *)
CollapsedToOne(before, after, links, user, recipe, names) ==
    \A n \in names :
        /\ Cardinality(NamedBy(after, user, {n}) \ DOMAIN before) <= 1
        /\ Cardinality({t \in TagsOf(links, recipe) : after[t].name = n}) = 1

(* C17: a recipe create or update whose tags (ingredients) list names a    *)
(* tag (ingredient) more than once has the status and leaves the store     *)
(* that the same request with the repeats removed has and leaves; when it  *)
(* goes through, one row at most was created for each name and the recipe  *)
(* has exactly one association with it.                                    *)
C17_DuplicateNamesCollapse ==
    [][(/\ request'.view = "recipe"
        /\ request'.action \in UpdateActions \cup {"create"}
        /\ \/ HasRepeats(request'.data.tags)
           \/ HasRepeats(request'.data.ingredients))
       => LET out == RecipeWrite(Db, request', DedupData(request'.data))
              final == Transaction(Db, out)
          IN  /\ response'.status = out.status
              /\ recipes' = final.recipes
              /\ tags' = final.tags
              /\ ingredients' = final.ingredients
              /\ recipe_tags' = final.recipe_tags
              /\ recipe_ingredients' = final.recipe_ingredients
              /\ (response'.status \in {HTTP_200_OK, HTTP_201_CREATED}
                    /\ Has(request'.data.tags)) =>
                     CollapsedToOne(tags, tags', recipe_tags', request'.user,
                                    response'.data[1],
                                    Range(Val(request'.data.tags)))
              /\ (response'.status \in {HTTP_200_OK, HTTP_201_CREATED}
                    /\ Has(request'.data.ingredients)) =>
                     CollapsedToOne(ingredients, ingredients',
                                    recipe_ingredients', request'.user,
                                    response'.data[1],
                                    Range(Val(request'.data.ingredients)))]_vars

(* C17 happens: a recipe was created with a tags list naming one tag       *)
(* twice; the requester owns one tag of that name and it is on that recipe *)
(* alone.                                                                  *)
C17_Witness ==
    /\ request.view = "recipe"
    /\ request.action = "create"
    /\ response.status = HTTP_201_CREATED
    /\ HasRepeats(request.data.tags)
    /\ \A n \in Range(Val(request.data.tags)) :
           /\ Cardinality(NamedBy(tags, request.user, {n})) = 1
           /\ \A t \in NamedBy(tags, request.user, {n}) :
                  {l[1] : l \in {m \in recipe_tags : m[2] = t}} = {response.data[1]}

(* C18: every recipe list is in strictly descending order of id, and every *)
(* tag or ingredient list is in ascending order of name, with or without   *)
(* filters.                                                                *)
C18_ListOrdering ==
    (request.action = "list" /\ response.status = HTTP_200_OK) =>
        \A i \in 1..Len(response.data), j \in 1..Len(response.data) :
            i < j =>
                IF request.view = "recipe"
                THEN response.data[i] > response.data[j]
                ELSE NameRank(ListedTable[response.data[i]].name)
                         <= NameRank(ListedTable[response.data[j]].name)

(* C18 happens: a tag list filtered with assigned_only=1 holds two tags,   *)
(* the one created later first because of its name.                        *)
C18_Witness ==
    /\ request.view = "tag"
    /\ request.action = "list"
    /\ request.query.assigned_only = Some(<<"1">>)
    /\ response.status = HTTP_200_OK
    /\ Len(response.data) = 2
    /\ response.data[1] > response.data[2]
    /\ tags[response.data[1]].name # tags[response.data[2]].name

(* Two requests that have both completed with success and were in progress *)
(* at the same time.                                                       *)
CompletedSideBySide(v, w) ==
    /\ v # w
    /\ workers[v].pc = "done"
    /\ workers[w].pc = "done"
    /\ workers[v].status \in {HTTP_200_OK, HTTP_201_CREATED}
    /\ workers[w].status \in {HTTP_200_OK, HTTP_201_CREATED}
    /\ (w \in workers[v].peers \/ v \in workers[w].peers)

(* C19: when two recipe creates or updates of one user that ran side by    *)
(* side both named a tag the user did not own, the user owns exactly one   *)
(* tag of that name once both have completed, and both recipes have it.    *)
C19_ConcurrentGetOrCreateOneRow ==
    \A v \in Workers, w \in Workers :
        (/\ CompletedSideBySide(v, w)
         /\ workers[v].user = workers[w].user
         /\ workers[v].pk # workers[w].pk) =>
            \A n \in (Range(workers[v].tags) \cap Range(workers[w].tags))
                         \ (workers[v].owned \cup workers[w].owned) :
                /\ Cardinality(NamedBy(tags, workers[v].user, {n})) = 1
                /\ \A t \in NamedBy(tags, workers[v].user, {n}) :
                       /\ <<workers[v].pk, t>> \in recipe_tags
                       /\ <<workers[w].pk, t>> \in recipe_tags

(* C20: when two updates of one recipe that ran side by side gave the tags *)
(* lists L1 and L2, the recipe's tags once both have completed are the     *)
(* tags named in L1 or the tags named in L2.                               *)
C20_ConcurrentUpdatesSerial ==
    \A v \in Workers, w \in Workers :
        (/\ CompletedSideBySide(v, w)
         /\ workers[v].action = "partial_update"
         /\ workers[w].action = "partial_update"
         /\ workers[v].pk = workers[w].pk) =>
            LET names == {tags[t].name : t \in TagsOf(recipe_tags, workers[v].pk)}
            IN  names = Range(workers[v].tags) \/ names = Range(workers[w].tags)

(* Some filter of a well-formed query string leaves the recipe out.        *)
LookupMisses(query, pk) ==
    /\ ~HasBadToken(query.tags)
    /\ ~HasBadToken(query.ingredients)
    /\ \/ /\ Truthy(query.tags)
          /\ TagsOf(recipe_tags, pk) \cap IdsIn(query.tags) = {}
       \/ /\ Truthy(query.ingredients)
          /\ TagsOf(recipe_ingredients, pk) \cap IdsIn(query.ingredients) = {}

(* C21: a retrieve, update, delete or image upload on the requester's own  *)
(* recipe with a tags or ingredients parameter the recipe does not match,  *)
(* and an update or delete of the requester's own tag or ingredient with   *)
(* assigned_only=1 while it is on no recipe, are answered 404 and change   *)
(* nothing.                                                                *)
C21_LookupInsideFilteredSet ==
    [][/\ (/\ request'.view = "recipe"
           /\ request'.action \in DetailActions
           /\ request'.pk \in DOMAIN recipes
           /\ recipes[request'.pk].user = request'.user
           /\ LookupMisses(request'.query, request'.pk))
          => (response'.status = HTTP_404_NOT_FOUND /\ database' = database)
       /\ (/\ request'.view \in Views
           /\ request'.action \in UpdateActions \cup {"destroy"}
           /\ request'.pk \in DOMAIN TableOf(Db, request'.view)
           /\ TableOf(Db, request'.view)[request'.pk].user = request'.user
           /\ request'.query.assigned_only = Some(<<"1">>)
           /\ \A l \in ThroughOf(Db, request'.view) : l[2] # request'.pk)
          => (response'.status = HTTP_404_NOT_FOUND /\ database' = database)]_vars

(* C21 happens: a delete of the requester's own recipe, which has a tag,   *)
(* was answered 404 because the tags parameter names another tag, and the  *)
(* recipe is still there with its tag.                                     *)
C21_Witness ==
    /\ request.view = "recipe"
    /\ request.action = "destroy"
    /\ response.status = HTTP_404_NOT_FOUND
    /\ request.pk \in DOMAIN recipes
    /\ recipes[request.pk].user = request.user
    /\ Truthy(request.query.tags)
    /\ ~HasBadToken(request.query.tags)
    /\ TagsOf(recipe_tags, request.pk) # {}
    /\ TagsOf(recipe_tags, request.pk) \cap IdsIn(request.query.tags) = {}

(* A parameter that is in the query string with a value that is not empty. *)
Given(param) == param \notin {None, Some(<<>>)}

(* The requester's recipes that pass the filter of one parameter: all of   *)
(* them when the parameter is absent or empty.                             *)
Passing(links, user, param) ==
    IF Given(param) THEN HavingOneOf(links, user, IdsIn(param))
    ELSE OwnedBy(recipes, user)

(* C22: a recipe list with a tags and an ingredients parameter holds       *)
(* exactly the requester's recipes that have one of the tags and one of    *)
(* the ingredients, each once; a parameter with an empty value filters     *)
(* nothing.                                                                *)
C22_BothFiltersIntersect ==
    (/\ request.view = "recipe"
     /\ request.action = "list"
     /\ ~HasBadToken(request.query.tags)
     /\ ~HasBadToken(request.query.ingredients)
     /\ \/ Given(request.query.tags) /\ Given(request.query.ingredients)
        \/ request.query.tags = Some(<<>>)
        \/ request.query.ingredients = Some(<<>>)) =>
        /\ response.status = HTTP_200_OK
        /\ NoDuplicates(response.data)
        /\ Range(response.data)
              = Passing(recipe_tags, request.user, request.query.tags)
                  \cap Passing(recipe_ingredients, request.user,
                               request.query.ingredients)

(* C22 happens: a list with both parameters holds a recipe and leaves out  *)
(* a recipe of the requester that has one of the tags but none of the      *)
(* ingredients.                                                            *)
C22_Witness ==
    /\ request.view = "recipe"
    /\ request.action = "list"
    /\ response.status = HTTP_200_OK
    /\ Given(request.query.tags)
    /\ Given(request.query.ingredients)
    /\ response.data # <<>>
    /\ \E r \in OwnedBy(recipes, request.user) \ Range(response.data) :
           /\ TagsOf(recipe_tags, r) \cap IdsIn(request.query.tags) # {}
           /\ TagsOf(recipe_ingredients, r) = {}

(* Every row of the table is still there with the same name and owner.     *)
RowsKept(before, after) ==
    \A pk \in DOMAIN before : pk \in DOMAIN after /\ after[pk] = before[pk]

(* The request is a successful delete of row pk of the table on the        *)
(* endpoint of the view, made by the owner of the row.                     *)
DeletedByOwner(req, resp, view, table, pk) ==
    /\ req.view = view
    /\ req.action = "destroy"
    /\ req.pk = pk
    /\ req.user = table[pk].user
    /\ resp.status = HTTP_204_NO_CONTENT

(* C23: a recipe create, update or delete leaves every tag and ingredient  *)
(* row in the store with its name and owner; a row that is on no recipe    *)
(* any more stays and is left out of a list with assigned_only=1; a tag or *)
(* ingredient row goes only by a delete on its own endpoint by its owner.  *)
C23_RecipeWritesKeepAttributeRows ==
    /\ [][/\ (request'.view = "recipe") =>
                (RowsKept(tags, tags') /\ RowsKept(ingredients, ingredients'))
          /\ \A pk \in DOMAIN tags \ DOMAIN tags' :
                 DeletedByOwner(request', response', "tag", tags, pk)
          /\ \A pk \in DOMAIN ingredients \ DOMAIN ingredients' :
                 DeletedByOwner(request', response', "ingredient",
                                ingredients, pk)]_vars
    /\ []((/\ request.view \in Views
           /\ request.action = "list"
           /\ request.query.assigned_only = Some(<<"1">>))
          => \A pk \in Range(response.data) :
                 \E l \in ThroughOf(Db, request.view) : l[2] = pk)

(* C23 happens: the requester has deleted a recipe, has no recipe left and *)
(* still has a tag row, which is on no recipe.                             *)
C23_Witness ==
    /\ request.view = "recipe"
    /\ request.action = "destroy"
    /\ response.status = HTTP_204_NO_CONTENT
    /\ OwnedBy(recipes, request.user) = {}
    /\ \E t \in OwnedBy(tags, request.user) :
           \A l \in recipe_tags : l[2] # t

(* The lines of the command's output that report success.                  *)
SuccessLines ==
    {i \in 1..Len(command.stdout) :
        command.stdout[i] = SUCCESS("Database available!")}

====
